---- MODULE Spec2Model ----
(***************************************************************************)
(* The fendermint FVM message interpreter (fvm/exec.rs): block-end         *)
(* checkpointing and signature broadcast (`end`), with the gateway state   *)
(* it reads and the background broadcast tasks it spawns, and the          *)
(* execution of the messages of a block (`begin`, `deliver`); and the      *)
(* sender resolution of the IPC provider (provider/src/lib.rs).            *)
(***************************************************************************)
EXTENDS Integers, Sequences, FiniteSets, TLC

\* ------------------------------------------------------------------ bounds
MaxHeight == 3
MaxPeriod == 2
MaxEndCalls == 2

\* ------------------------------------------------------------ value spaces
Validators == {"A", "B"}
ValidatorOrder == <<"A", "B">>
NodeKey == "A"
NoCtx == "no_validator_ctx"
NoHash == -1
\* The hash of the block at height h; 0xAA is 170.
BlockHash(h) == 170 + h
Powers == {1, 2}
NoCheckpoint == [block_height |-> -1, block_hash |-> NoHash]

VARIABLES
    height,               \* state.block_height()
    block_hash,           \* state.block_hash(): NoHash or a hash
    phase,                \* "open" | "ended" | "aborted"
    endCalls,             \* calls of `end` on the state of this block
    bottomUpCheckPeriod,  \* gateway configuration, on chain
    checkpoints,          \* gateway: the checkpoints created, in creation order
    window,               \* gateway: heights whose commit window is open
    signatures,           \* gateway: <<height, validator>> signatures recorded
    power_table,          \* gateway: current validator powers
    checkpoint_power,     \* gateway: powers as of the previous checkpoint
    validator_ctx,        \* self.validator_ctx: NoCtx or the public key
    tasks,                \* tokio tasks spawned by `end`, in flight
    logged,               \* heights of "error broadcasting checkpoint signature"
    failures,             \* heights of the checkpoints a submission failed for
    failures_before,      \* those of them that failed while an earlier block was open
    endResult,            \* what `end` returned and did on the state of this block
    app_version,          \* state.app_version()
    chain_id,             \* state.chain_id()
    push_chain_meta,      \* self.push_chain_meta
    upgrade_scheduler,    \* self.upgrade_scheduler: the <<chain id, height>> with a migration
    sequence,             \* the next sequence number of each account actor
    applied,              \* the sequence numbers of the explicit messages applied, by sender
    stage,                \* "begin" | "deliver" | "fatal": where the block stands
    beginResult,          \* what `begin` returned and executed
    deliverResult,        \* what the last `deliver` returned and executed
    sender,               \* IpcProvider.sender: NoAddr or an address
    fvm_default,          \* the default account of the FVM wallet, if any
    evm_default,          \* the default key of the EVM keystore, if any
    senderResult          \* the last call on the provider and what it returned

execVars == <<app_version, chain_id, push_chain_meta, upgrade_scheduler, sequence,
              applied, stage, beginResult, deliverResult>>

provVars == <<sender, fvm_default, evm_default, senderResult>>

vars == <<height, block_hash, phase, endCalls, bottomUpCheckPeriod, checkpoints,
          window, signatures, power_table, checkpoint_power, validator_ctx,
          tasks, logged, failures, failures_before, endResult, execVars, provVars>>

gatewayVars == <<bottomUpCheckPeriod, checkpoints, window, signatures,
                 power_table, checkpoint_power>>
blockVars == <<height, block_hash, phase, endCalls>>
taskVars == <<tasks, logged, failures>>

\* --------------------------------------------------------------- sequences
RECURSIVE SeqToSet(_)
SeqToSet(s) == IF s = <<>> THEN {} ELSE {Head(s)} \cup SeqToSet(Tail(s))

RECURSIVE HeightsOf(_)
HeightsOf(s) == IF s = <<>> THEN <<>> ELSE <<Head(s).block_height>> \o HeightsOf(Tail(s))

Ascending(hs) == \A i \in 1..Len(hs) : \A j \in 1..Len(hs) : i < j => hs[i] < hs[j]

\* ------------------------------------------------- checkpoint::* (gateway)
\* A checkpoint is due at the positive multiples of the configured period.
DueUnconditional(h, period) == h % period = 0
Due(h, period) == h > 0 /\ h % period = 0

HasCheckpoint(cps, h) == \E i \in 1..Len(cps) : cps[i].block_height = h

\* Validator power changes between the snapshot of the previous checkpoint and
\* the current table, in validator order.
RECURSIVE PowerDiffOver(_, _, _)
PowerDiffOver(vs, prev, cur) ==
    IF vs = <<>> THEN <<>>
    ELSE LET v == Head(vs)
             rest == PowerDiffOver(Tail(vs), prev, cur)
         IN IF prev[v] # cur[v]
            THEN <<[validator |-> v, power |-> cur[v]]>> \o rest
            ELSE rest

PowerDiff(prev, cur) == PowerDiffOver(ValidatorOrder, prev, cur)

\* maybe_create_checkpoint(gateway, state): None when no checkpoint is due (or
\* the one of this height exists already), an error when one is due and the
\* block hash is unknown or the power table unreadable, else the checkpoint of
\* this block and the power updates.
maybe_create_checkpointEveryCall(period, cps, prev, cur, h, hash, readable) ==
    IF ~Due(h, period)
    THEN [tag |-> "None", checkpoint |-> NoCheckpoint, updates |-> <<>>]
    ELSE IF hash = NoHash \/ ~readable
    THEN [tag |-> "Err", checkpoint |-> NoCheckpoint, updates |-> <<>>]
    ELSE [tag |-> "Some",
          checkpoint |-> [block_height |-> h, block_hash |-> hash],
          updates |-> PowerDiff(prev, cur)]

maybe_create_checkpoint(period, cps, prev, cur, h, hash, readable) ==
    IF ~Due(h, period) \/ HasCheckpoint(cps, h)
    THEN [tag |-> "None", checkpoint |-> NoCheckpoint, updates |-> <<>>]
    ELSE IF hash = NoHash \/ ~readable
    THEN [tag |-> "Err", checkpoint |-> NoCheckpoint, updates |-> <<>>]
    ELSE [tag |-> "Some",
          checkpoint |-> [block_height |-> h, block_hash |-> hash],
          updates |-> PowerDiff(prev, cur)]

RECURSIVE InsertByHeight(_, _)
InsertByHeight(cp, s) ==
    IF s = <<>> THEN <<cp>>
    ELSE IF cp.block_height <= Head(s).block_height THEN <<cp>> \o s
    ELSE <<Head(s)>> \o InsertByHeight(cp, Tail(s))

\* unsigned_checkpoints(gateway, state, public_key): the checkpoints whose commit
\* window is open and that carry no signature of public_key, by height.
RECURSIVE unsigned_checkpointsAll(_, _, _, _)
unsigned_checkpointsAll(cps, win, sigs, public_key) ==
    IF cps = <<>> THEN <<>>
    ELSE LET cp == Head(cps)
             rest == unsigned_checkpointsAll(Tail(cps), win, sigs, public_key)
         IN IF cp.block_height \in win
            THEN InsertByHeight(cp, rest)
            ELSE rest

RECURSIVE unsigned_checkpoints(_, _, _, _)
unsigned_checkpoints(cps, win, sigs, public_key) ==
    IF cps = <<>> THEN <<>>
    ELSE LET cp == Head(cps)
             rest == unsigned_checkpoints(Tail(cps), win, sigs, public_key)
         IN IF cp.block_height \in win /\ <<cp.block_height, public_key>> \notin sigs
            THEN InsertByHeight(cp, rest)
            ELSE rest

\* ------------------------------------------------------- exec.rs: `end`
\* exec.rs 507-509: broadcast only with a validator context and when not syncing.
ShouldBroadcastWhileSyncing(created, ctx, is_syncing) == created /\ ctx # NoCtx
ShouldBroadcast(created, ctx, is_syncing) == created /\ ctx # NoCtx /\ ~is_syncing

\* exec.rs 511-513: the incomplete checkpoints are read from the state that
\* maybe_create_checkpoint has just updated, for the key of the context.
IncompleteCheckpointsStale(cpsBefore, cpsAfter, winBefore, winAfter, sigs, ctx) ==
    unsigned_checkpoints(cpsBefore, winBefore, sigs, ctx)
IncompleteCheckpointsWrongKey(cpsBefore, cpsAfter, winBefore, winAfter, sigs, ctx) ==
    unsigned_checkpoints(cpsAfter, winAfter, sigs, "B")
IncompleteCheckpoints(cpsBefore, cpsAfter, winBefore, winAfter, sigs, ctx) ==
    unsigned_checkpoints(cpsAfter, winAfter, sigs, ctx)

\* exec.rs 515-521: the debug assertion on the list.
CurrentIsIncomplete(incomplete, checkpoint) ==
    \E i \in 1..Len(incomplete) :
        /\ incomplete[i].block_height = checkpoint.block_height
        /\ incomplete[i].block_hash = checkpoint.block_hash

\* exec.rs 523-536: what the spawned task captures.
NewTaskCurrentOnly(checkpoint, ctx, incomplete) ==
    [height |-> checkpoint.block_height, validator_ctx |-> ctx,
     incomplete_checkpoints |-> <<checkpoint>>, pos |-> 1,
     attempted |-> <<>>, failed |-> FALSE]
NewTask(checkpoint, ctx, incomplete) ==
    [height |-> checkpoint.block_height, validator_ctx |-> ctx,
     incomplete_checkpoints |-> incomplete, pos |-> 1,
     attempted |-> <<>>, failed |-> FALSE]

\* exec.rs 546-549: the power updates of the checkpoint, or the default.
EndOutputDefault(r) == <<>>
EndOutput(r) == IF r.tag = "Some" THEN r.updates ELSE <<>>

NoResult ==
    [called |-> FALSE, ok |-> FALSE, err |-> "", height |-> -1, created |-> FALSE,
     checkpoint |-> NoCheckpoint, updates |-> <<>>, has_ctx |-> FALSE,
     syncing |-> FALSE, dispatched |-> FALSE, incomplete |-> <<>>,
     assertion |-> TRUE]

\* What a call of `end` returned and did: Ok((state, updates)) or Err(err).
EndResult(ok, err, r, is_syncing, dispatched, incomplete) ==
    [called |-> TRUE, ok |-> ok, err |-> err, height |-> height,
     created |-> (r.tag = "Some"), checkpoint |-> r.checkpoint,
     updates |-> IF ok THEN EndOutput(r) ELSE <<>>,
     has_ctx |-> (validator_ctx # NoCtx), syncing |-> is_syncing,
     dispatched |-> dispatched, incomplete |-> incomplete,
     assertion |-> dispatched => CurrentIsIncomplete(incomplete, r.checkpoint)]

\* exec.rs 502-504, 511-513: the two `?` of `end`, "" when it goes on.
EndErrorIgnoringCreate(r, broadcast, fetched) ==
    IF broadcast /\ ~fetched THEN "failed to fetch incomplete checkpoints"
    ELSE ""
EndErrorIgnoringFetch(r, broadcast, fetched) ==
    IF r.tag = "Err" THEN "failed to create checkpoint"
    ELSE ""
EndError(r, broadcast, fetched) ==
    IF r.tag = "Err" THEN "failed to create checkpoint"
    ELSE IF broadcast /\ ~fetched THEN "failed to fetch incomplete checkpoints"
    ELSE ""

\* exec.rs 501-552: `end` on the state of the block at height h, on a node with
\* the context ctx: Ok((state, updates)) or Err(err), the gateway state that
\* comes back with the state (the one it was called with, when the state is
\* dropped with the error), and the task it has spawned.
end(period, cps, win, sigs, prev, cur, h, hash, ctx, readable, is_syncing, fetched) ==
    LET r == maybe_create_checkpoint(period, cps, prev, cur, h, hash, readable)
        broadcast == ShouldBroadcast(r.tag = "Some", ctx, is_syncing)
        err == EndError(r, broadcast, fetched)
        ok == err = ""
        created == ok /\ r.tag = "Some"
        cpsAfter == Append(cps, r.checkpoint)
        winAfter == win \cup {h}
        incomplete == IF ok /\ broadcast
                      THEN IncompleteCheckpoints(cps, cpsAfter, win, winAfter, sigs, ctx)
                      ELSE <<>>
    IN  [ok |-> ok, err |-> err, r |-> r,
         updates |-> IF ok THEN EndOutput(r) ELSE <<>>,
         dispatched |-> ok /\ broadcast,
         incomplete |-> incomplete,
         checkpoints |-> IF created THEN cpsAfter ELSE cps,
         window |-> IF created THEN winAfter ELSE win,
         checkpoint_power |-> IF created THEN cur ELSE prev,
         spawned |-> IF ok /\ broadcast
                     THEN {NewTask(r.checkpoint, ctx, incomplete)}
                     ELSE {}]

\* ------------------------------------------ exec.rs: `begin` and `deliver`
ExecMaxHeight == 1
MaxSequence == 1

ChainId == 1
OtherChainId == 2
SYSTEM_ACTOR_ADDR == "system"
CRON_ACTOR_ADDR == "cron"
CHAINMETADATA_ACTOR_ADDR == "chainmetadata"
MACHINELEARNING_ACTOR_ADDR == "machinelearning"
Accounts == {"a1", "a2"}

\* Exit codes of a receipt.
ExitOk == 0
SYS_SENDER_STATE_INVALID == 2
ExitFailed == 16

\* What the executor makes of a message: it runs it ("ok"), it runs it and the
\* receipt carries failure info, it cannot run it ("error"), or it runs it and
\* the return data is not what the caller deserializes ("bad_return"). What a
\* migration does: nothing to the version, a new version, or it fails.
MessageOutcomes == {"ok", "failure_info", "error", "bad_return"}
UpgradeOutcomes == {"ok", "new_version", "error"}

\* exec.rs 78: BLOCK_GAS_LIMIT * 10000, with gas counted in units of 10^9
\* (BLOCK_GAS_LIMIT is 10_000_000_000).
BLOCK_GAS_LIMIT == 10
CronGasLimit == BLOCK_GAS_LIMIT * 10000

\* exec.rs 84-95
CronMessage(h) ==
    [from |-> SYSTEM_ACTOR_ADDR, to |-> CRON_ACTOR_ADDR, sequence |-> h,
     gas_limit |-> CronGasLimit, method_num |-> "EpochTick", params |-> <<>>,
     value |-> 0, gas_fee_cap |-> 0, gas_premium |-> 0]

\* exec.rs 107-125
PushMessageOwnGas(h, hash) ==
    [from |-> SYSTEM_ACTOR_ADDR, to |-> CHAINMETADATA_ACTOR_ADDR, sequence |-> h,
     gas_limit |-> BLOCK_GAS_LIMIT, method_num |-> "PushBlockHash",
     params |-> <<h, hash>>, value |-> 0, gas_fee_cap |-> 0, gas_premium |-> 0]
PushMessage(h, hash) ==
    [from |-> SYSTEM_ACTOR_ADDR, to |-> CHAINMETADATA_ACTOR_ADDR, sequence |-> h,
     gas_limit |-> CronGasLimit, method_num |-> "PushBlockHash",
     params |-> <<h, hash>>, value |-> 0, gas_fee_cap |-> 0, gas_premium |-> 0]

\* exec.rs 135-449: train and predict, for three kinds of regression.
MachineLearningMethods ==
    <<"TrainLinearRegression", "PredictLinearRegression",
      "TrainLogisticRegression", "PredictLogisticRegression",
      "TrainKNNRegression", "PredictKNNRegression">>

MachineLearningMessage(h, method) ==
    [from |-> SYSTEM_ACTOR_ADDR, to |-> MACHINELEARNING_ACTOR_ADDR, sequence |-> h,
     gas_limit |-> CronGasLimit, method_num |-> method, params |-> <<>>,
     value |-> 0, gas_fee_cap |-> 0, gas_premium |-> 0]

MachineLearningMessages(h) ==
    [i \in 1..Len(MachineLearningMethods) |->
        MachineLearningMessage(h, MachineLearningMethods[i])]

StepNames ==
    {"EpochTick", "PushBlockHash"} \cup
    {MachineLearningMethods[i] : i \in 1..Len(MachineLearningMethods)}

\* exec.rs 61: the migration scheduled for this chain and height, if any.
ScheduledAnyChain(scheduler, cid, h) == \E c \in {ChainId, OtherChainId} : <<c, h>> \in scheduler
Scheduled(scheduler, cid, h) == <<cid, h>> \in scheduler

\* exec.rs 105-106: the block hash is pushed when that is switched on and the
\* state has a block hash.
PushDueWithoutHash(push, hash) == push
PushDue(push, hash) == push /\ hash # NoHash

Predicts(method) ==
    method \in {"PredictLinearRegression", "PredictLogisticRegression",
                "PredictKNNRegression"}

\* exec.rs 179-185, 228-241, ...: the return data of the machine-learning
\* messages is deserialized and unwrapped.
Unwraps(method) == method \notin {"EpochTick", "PushBlockHash"}

\* exec.rs 97-102, 127-131, 179-183, 228-235, ...: how `begin` leaves after a
\* message it has executed, "" when it goes on.
StepErrorIgnoringCron(method, outcome) ==
    IF outcome = "error" THEN "execution error"
    ELSE IF outcome = "failure_info" /\ method = "EpochTick"
    THEN ""
    ELSE IF outcome = "failure_info" /\ method = "PushBlockHash"
    THEN "failed to apply chainmetadata message"
    ELSE IF outcome = "failure_info" /\ Predicts(method)
    THEN "failed to apply predict syscall message"
    ELSE IF outcome = "failure_info" THEN "failed to apply customsyscall message"
    ELSE IF outcome = "bad_return" /\ Unwraps(method) THEN "panic"
    ELSE ""
StepError(method, outcome) ==
    IF outcome = "error" THEN "execution error"
    ELSE IF outcome = "failure_info" /\ method = "EpochTick"
    THEN "failed to apply block cron message"
    ELSE IF outcome = "failure_info" /\ method = "PushBlockHash"
    THEN "failed to apply chainmetadata message"
    ELSE IF outcome = "failure_info" /\ Predicts(method)
    THEN "failed to apply predict syscall message"
    ELSE IF outcome = "failure_info" THEN "failed to apply customsyscall message"
    ELSE IF outcome = "bad_return" /\ Unwraps(method) THEN "panic"
    ELSE ""

\* exec.rs 76-449: the implicit messages of `begin`, in the order it builds them.
BeginMessagesPushFirst(h, hash, push) ==
    (IF PushDue(push, hash) THEN <<PushMessage(h, hash)>> ELSE <<>>)
        \o <<CronMessage(h)>> \o MachineLearningMessages(h)
BeginMessages(h, hash, push) ==
    <<CronMessage(h)>>
        \o (IF PushDue(push, hash) THEN <<PushMessage(h, hash)>> ELSE <<>>)
        \o MachineLearningMessages(h)

\* state.execute_implicit for each message in turn, until `begin` leaves.
RECURSIVE execute_messages(_, _, _)
execute_messages(msgs, out, done) ==
    IF msgs = <<>> THEN [err |-> "", messages |-> done]
    ELSE LET msg == Head(msgs)
             e == StepError(msg.method_num, out[msg.method_num])
         IN  IF e # ""
             THEN [err |-> e, messages |-> Append(done, msg)]
             ELSE execute_messages(Tail(msgs), out, Append(done, msg))

\* The ApplyRet and the emitters the executor returns for a message: the
\* receipt of that message and the emitters of its events.
ApplyRet(msg, outcome) ==
    [of |-> <<msg.to, msg.method_num, msg.sequence>>,
     failure_info |-> outcome = "failure_info",
     exit_code |-> IF outcome = "failure_info" THEN ExitFailed ELSE ExitOk]

Emitters(msg) == [of |-> <<msg.to, msg.method_num, msg.sequence>>]

NoApplyRet == [of |-> <<>>, failure_info |-> FALSE, exit_code |-> ExitOk]

\* FvmApplyRet.
NoOutput ==
    [apply_ret |-> NoApplyRet, from |-> "", to |-> "", method_num |-> "",
     gas_limit |-> 0, emitters |-> [of |-> <<>>]]

\* exec.rs 78-81, 97, 451-458: the FvmApplyRet of `begin` is put together from
\* the bindings of the cron message; those of the later messages are local to
\* their blocks.
BeginOutputOfLast(h, out) ==
    LET last == MachineLearningMessage(h, "PredictKNNRegression")
    IN  [apply_ret |-> ApplyRet(last, out[last.method_num]),
         from |-> SYSTEM_ACTOR_ADDR, to |-> CRON_ACTOR_ADDR, method_num |-> "EpochTick",
         gas_limit |-> CronGasLimit, emitters |-> Emitters(last)]
BeginOutput(h, out) ==
    [apply_ret |-> ApplyRet(CronMessage(h), out["EpochTick"]),
     from |-> SYSTEM_ACTOR_ADDR, to |-> CRON_ACTOR_ADDR, method_num |-> "EpochTick",
     gas_limit |-> CronGasLimit, emitters |-> Emitters(CronMessage(h))]

\* exec.rs 61-72: the application version after the migration, if one is
\* scheduled; a migration that yields a version yields the next one.
NewAppVersionUnscheduled(scheduled, up, version) ==
    IF up = "new_version" THEN version + 1 ELSE version
NewAppVersion(scheduled, up, version) ==
    IF scheduled /\ up = "new_version" THEN version + 1 ELSE version

NoBeginResult ==
    [called |-> FALSE, ok |-> FALSE, err |-> "", executed |-> <<>>,
     messages |-> <<>>, output |-> NoOutput, state_returned |-> FALSE,
     version_before |-> 0, app_version |-> 0, up |-> "ok",
     out |-> [m \in StepNames |-> "ok"]]

\* exec.rs 51-461: Ok((state, ret)) or Err(err) of `begin` on the state of the
\* block at height h, with what it executed on the way (the migration as
\* "upgrade", then the implicit messages by their method) and what the
\* migration and the executor answered. The state, and the application version
\* in it, comes back with Ok only.
begin(h, hash, cid, scheduler, push, version, up, out) ==
    IF Scheduled(scheduler, cid, h) /\ up = "error"
    THEN [called |-> TRUE, ok |-> FALSE, err |-> "upgrade failed",
          executed |-> <<"upgrade">>, messages |-> <<>>, output |-> NoOutput,
          state_returned |-> FALSE, version_before |-> version,
          app_version |-> version, up |-> up, out |-> out]
    ELSE LET scheduled == Scheduled(scheduler, cid, h)
             r == execute_messages(BeginMessages(h, hash, push), out, <<>>)
             ok == r.err = ""
         IN  [called |-> TRUE, ok |-> ok, err |-> r.err,
              executed |-> (IF scheduled THEN <<"upgrade">> ELSE <<>>)
                            \o [i \in 1..Len(r.messages) |-> r.messages[i].method_num],
              messages |-> r.messages,
              output |-> IF ok THEN BeginOutput(h, out) ELSE NoOutput,
              state_returned |-> ok,
              version_before |-> version,
              app_version |-> IF ok THEN NewAppVersion(scheduled, up, version)
                              ELSE version,
              up |-> up, out |-> out]

\* state.execute_implicit: the message is executed without a check of its
\* sequence number and without fees; the sequence numbers stay as they are.
execute_implicit(seqs, msg, outcome) ==
    [tag |-> IF outcome = "error" THEN "Err" ELSE "Ok",
     failure_info |-> outcome = "failure_info",
     exit_code |-> IF outcome = "failure_info" THEN ExitFailed ELSE ExitOk,
     sequence |-> seqs, applied |-> FALSE]

\* state.execute_explicit: a sequence number at or below the last one the
\* sender used is rejected in the receipt; one past the next expected is
\* rejected or taken (gap_taken); the message that is taken uses up its
\* sequence number, whether its execution fails or not.
execute_explicitUnchecked(seqs, msg, outcome, gap_taken) ==
    IF outcome = "error"
    THEN [tag |-> "Err", failure_info |-> FALSE, exit_code |-> ExitOk,
          sequence |-> seqs, applied |-> FALSE]
    ELSE [tag |-> "Ok", failure_info |-> outcome = "failure_info",
          exit_code |-> IF outcome = "failure_info" THEN ExitFailed ELSE ExitOk,
          sequence |-> [seqs EXCEPT ![msg.from] = msg.sequence + 1],
          applied |-> outcome # "failure_info"]
execute_explicit(seqs, msg, outcome, gap_taken) ==
    IF msg.sequence < seqs[msg.from] \/ (msg.sequence > seqs[msg.from] /\ ~gap_taken)
    THEN [tag |-> "Ok", failure_info |-> TRUE, exit_code |-> SYS_SENDER_STATE_INVALID,
          sequence |-> seqs, applied |-> FALSE]
    ELSE IF outcome = "error"
    THEN [tag |-> "Err", failure_info |-> FALSE, exit_code |-> ExitOk,
          sequence |-> seqs, applied |-> FALSE]
    ELSE [tag |-> "Ok", failure_info |-> outcome = "failure_info",
          exit_code |-> IF outcome = "failure_info" THEN ExitFailed ELSE ExitOk,
          sequence |-> [seqs EXCEPT ![msg.from] = msg.sequence + 1],
          applied |-> outcome # "failure_info"]

\* exec.rs 473: the path is chosen by the sender alone.
IsImplicitAlways(from) == TRUE
IsImplicit(from) == from = SYSTEM_ACTOR_ADDR

\* exec.rs 473-477, 498: `deliver` fails only when the executor does.
DeliverOkUnlessFailure(r) == r.tag = "Ok" /\ ~r.failure_info
DeliverOk(r) == r.tag = "Ok"

NoDeliverResult ==
    [called |-> FALSE, ok |-> FALSE, path |-> "", from |-> "", sequence |-> -1,
     outcome |-> "ok", failure_info |-> FALSE, exit_code |-> ExitOk,
     state_returned |-> FALSE, applied |-> FALSE,
     sequence_before |-> [a \in Accounts |-> 0],
     sequence_after |-> [a \in Accounts |-> 0]]

\* exec.rs 463-499: Ok((state, ret)) or Err(err) of `deliver`, with the path
\* taken, what the executor answered and the sequence numbers before and after.
deliver(seqs, msg, outcome, gap_taken) ==
    LET implicit == IsImplicit(msg.from)
        r == IF implicit
             THEN execute_implicit(seqs, msg, outcome)
             ELSE execute_explicit(seqs, msg, outcome, gap_taken)
        ok == DeliverOk(r)
    IN  [called |-> TRUE, ok |-> ok,
         path |-> IF implicit THEN "implicit" ELSE "explicit",
         from |-> msg.from, sequence |-> msg.sequence, outcome |-> outcome,
         failure_info |-> r.failure_info,
         exit_code |-> r.exit_code,
         state_returned |-> ok,
         applied |-> ok /\ r.applied,
         sequence_before |-> seqs,
         sequence_after |-> IF ok THEN r.sequence ELSE seqs]

\* ------------------------------------------- provider/src/lib.rs: sender
NoAddr == "no_address"
NoKey == "no_key"
Addresses == {"f1a", "f1b"}
EthKeys == {"0xe1"}
SubnetKinds == {"Fvm", "Fevm"}

\* Address::try_from(EthKeyAddress): the delegated address of the key.
AddressOf(key) == IF key = "0xe1" THEN "f410e1" ELSE NoAddr

NoSenderResult ==
    [op |-> "", ok |-> FALSE, addr |-> NoAddr, err |-> "", kind |-> "", from |-> NoAddr,
     converts |-> TRUE]

\* lib.rs 177-217: Ok(addr) or Err(err) of check_sender and self.sender after
\* it, for the subnet kind, the `from` of the caller, the default accounts of
\* the wallets and whether the key of the EVM default converts to an address.
check_senderStoringFrom(stored, kind, from, fvm, evm, converts) ==
    IF from # NoAddr
    THEN [ok |-> TRUE, addr |-> from, err |-> "", sender |-> from]
    ELSE IF stored # NoAddr
    THEN [ok |-> TRUE, addr |-> stored, err |-> "", sender |-> stored]
    ELSE IF kind = "Fvm"
    THEN IF fvm = NoAddr
         THEN [ok |-> FALSE, addr |-> NoAddr, err |-> "get_default", sender |-> stored]
         ELSE [ok |-> TRUE, addr |-> fvm, err |-> "", sender |-> fvm]
    ELSE IF evm = NoKey
         THEN [ok |-> FALSE, addr |-> NoAddr,
               err |-> "no default evm account configured", sender |-> stored]
         ELSE IF ~converts
         THEN [ok |-> FALSE, addr |-> NoAddr, err |-> "try_from", sender |-> stored]
         ELSE [ok |-> TRUE, addr |-> AddressOf(evm), err |-> "",
               sender |-> AddressOf(evm)]
check_sender(stored, kind, from, fvm, evm, converts) ==
    IF from # NoAddr
    THEN [ok |-> TRUE, addr |-> from, err |-> "", sender |-> stored]
    ELSE IF stored # NoAddr
    THEN [ok |-> TRUE, addr |-> stored, err |-> "", sender |-> stored]
    ELSE IF kind = "Fvm"
    THEN IF fvm = NoAddr
         THEN [ok |-> FALSE, addr |-> NoAddr, err |-> "get_default", sender |-> stored]
         ELSE [ok |-> TRUE, addr |-> fvm, err |-> "", sender |-> fvm]
    ELSE IF evm = NoKey
         THEN [ok |-> FALSE, addr |-> NoAddr,
               err |-> "no default evm account configured", sender |-> stored]
         ELSE IF ~converts
         THEN [ok |-> FALSE, addr |-> NoAddr, err |-> "try_from", sender |-> stored]
         ELSE [ok |-> TRUE, addr |-> AddressOf(evm), err |-> "",
               sender |-> AddressOf(evm)]

\* lib.rs 82-94: IpcProvider::new, with wallets that have no default account.
ProviderNew ==
    /\ sender = NoAddr
    /\ fvm_default = NoAddr
    /\ evm_default = NoKey
    /\ senderResult = NoSenderResult

Init ==
    /\ ProviderNew
    /\ height = 0
    /\ block_hash \in {BlockHash(0), NoHash}
    /\ phase = "open"
    /\ endCalls = 0
    /\ bottomUpCheckPeriod \in 1..MaxPeriod
    /\ checkpoints = <<>>
    /\ window = {}
    /\ signatures = {}
    /\ power_table = [v \in Validators |-> 1]
    /\ checkpoint_power = [v \in Validators |-> 1]
    /\ validator_ctx \in {NodeKey, NoCtx}
    /\ tasks = {}
    /\ logged = {}
    /\ failures = {}
    /\ failures_before = {}
    /\ endResult = NoResult
    /\ app_version = 0
    /\ chain_id = ChainId
    /\ push_chain_meta = FALSE
    /\ upgrade_scheduler = {}
    /\ sequence = [a \in Accounts |-> 0]
    /\ applied = [a \in Accounts |-> <<>>]
    /\ stage = "begin"
    /\ beginResult = NoBeginResult
    /\ deliverResult = NoDeliverResult

\* The consensus layer has taken the result of `end` and hands the pipeline the
\* state of the next block.
NewBlock ==
    /\ phase = "ended"
    /\ height < MaxHeight
    /\ height' = height + 1
    /\ block_hash' \in {BlockHash(height + 1), NoHash}
    /\ phase' = "open"
    /\ endCalls' = 0
    /\ endResult' = NoResult
    /\ failures_before' = failures
    /\ UNCHANGED <<gatewayVars, validator_ctx, taskVars, execVars, provVars>>

\* exec.rs 501-552
End ==
    /\ phase \in {"open", "ended"}
    /\ endCalls < MaxEndCalls
    /\ endCalls' = endCalls + 1
    /\ \E readable \in BOOLEAN, is_syncing \in BOOLEAN, fetched \in BOOLEAN :
        \E e \in {end(bottomUpCheckPeriod, checkpoints, window, signatures,
                      checkpoint_power, power_table, height, block_hash,
                      validator_ctx, readable, is_syncing, fetched)} :
            /\ endResult' = EndResult(e.ok, e.err, e.r, is_syncing, e.dispatched,
                                      e.incomplete)
            /\ phase' = IF e.ok THEN "ended" ELSE "aborted"
            /\ checkpoints' = e.checkpoints
            /\ window' = e.window
            /\ checkpoint_power' = e.checkpoint_power
            /\ tasks' = tasks \cup e.spawned
    /\ UNCHANGED <<height, block_hash, bottomUpCheckPeriod, signatures, power_table,
                   validator_ctx, logged, failures, failures_before, execVars, provVars>>

\* checkpoint::broadcast_incomplete_signatures, the task after it has signed the
\* checkpoint at its position and submitted the signature: a failed submission is
\* noted and the loop goes on with the next checkpoint.
AfterSubmissionAborting(t, submitted) ==
    [t EXCEPT !.pos = IF submitted THEN t.pos + 1 ELSE Len(t.incomplete_checkpoints) + 1,
              !.attempted = Append(@, t.incomplete_checkpoints[t.pos].block_height),
              !.failed = @ \/ ~submitted]
AfterSubmission(t, submitted) ==
    [t EXCEPT !.pos = t.pos + 1,
              !.attempted = Append(@, t.incomplete_checkpoints[t.pos].block_height),
              !.failed = @ \/ ~submitted]

\* exec.rs 537-541: the broadcast has returned; its error is logged with the
\* height of the checkpoint that spawned the task, and nothing else happens.
TaskReturnsPropagating(t) ==
    /\ logged' = IF t.failed THEN logged \cup {t.height} ELSE logged
    /\ endResult' = IF t.failed
                    THEN [endResult EXCEPT !.ok = FALSE,
                              !.err = "error broadcasting checkpoint signature"]
                    ELSE endResult
TaskReturns(t) ==
    /\ logged' = IF t.failed THEN logged \cup {t.height} ELSE logged
    /\ endResult' = endResult

\* exec.rs 529-542: a spawned task signs the next checkpoint of its list and
\* submits the signature; after the last one it returns. A submission succeeds
\* by being executed in the block that is open, which records the signature in
\* the gateway.
BroadcastStep(t) ==
    /\ t \in tasks
    /\ t.pos <= Len(t.incomplete_checkpoints)
    /\ \E submitted \in IF phase = "open" THEN BOOLEAN ELSE {FALSE} :
        LET h == t.incomplete_checkpoints[t.pos].block_height
            u == AfterSubmission(t, submitted)
        IN  /\ signatures' = IF submitted
                             THEN signatures \cup {<<h, t.validator_ctx>>}
                             ELSE signatures
            /\ failures' = IF submitted THEN failures ELSE failures \cup {h}
            /\ IF u.pos > Len(u.incomplete_checkpoints)
               THEN /\ tasks' = tasks \ {t}
                    /\ TaskReturns(u)
               ELSE /\ tasks' = (tasks \ {t}) \cup {u}
                    /\ UNCHANGED <<logged, endResult>>
    /\ UNCHANGED <<blockVars, bottomUpCheckPeriod, checkpoints, window, power_table,
                   checkpoint_power, validator_ctx, failures_before, execVars, provVars>>

\* The node restarts: the tasks in flight and what `end` returned are gone, and
\* a block whose application was aborted is applied again.
Restart ==
    /\ tasks # {} \/ phase = "aborted"
    /\ tasks' = {}
    /\ phase' = IF phase = "aborted" THEN "open" ELSE phase
    /\ endCalls' = IF phase = "aborted" THEN 0 ELSE endCalls
    /\ endResult' = NoResult
    /\ UNCHANGED <<height, block_hash, gatewayVars, validator_ctx, logged, failures,
                   failures_before, execVars, provVars>>

\* The gateway closes the commit window of the oldest open checkpoint, in the
\* execution of the block that is open.
CloseWindow(h) ==
    /\ phase = "open"
    /\ h \in window
    /\ \A g \in window : h <= g
    /\ window' = window \ {h}
    /\ UNCHANGED <<blockVars, bottomUpCheckPeriod, checkpoints, signatures,
                   power_table, checkpoint_power, validator_ctx, taskVars, failures_before,
                   endResult, execVars, provVars>>

Next ==
    \/ NewBlock
    \/ End
    \/ \E t \in tasks : BroadcastStep(t)
    \/ Restart
    \/ \E h \in window : CloseWindow(h)

Spec == Init /\ [][Next]_vars

\* ------------------------------------------------------------- properties
\* The step is a call of `end`.
EndStep == endCalls' = endCalls + 1

\* The tasks the step dispatches.
Dispatched == {t \in tasks' : \A u \in tasks : u.height # t.height}

\* The last `end` was the first call on the state of the current block.
FirstEndOfBlock ==
    endResult.called /\ endResult.ok /\ endResult.height = height /\ endCalls = 1

CheckpointsAt(h) == {i \in 1..Len(checkpoints) : checkpoints[i].block_height = h}

Unsigned(v) == unsigned_checkpoints(checkpoints, window, signatures, v)

\* C1: `end` produces a checkpoint exactly at the heights that are positive
\* multiples of the check period of the gateway, and the checkpoint carries the
\* height and the block hash of the block.
C1_CheckpointIffDue ==
    /\ endResult.created =>
          /\ endResult.height > 0
          /\ endResult.height % bottomUpCheckPeriod = 0
          /\ endResult.checkpoint.block_height = endResult.height
          /\ endResult.height = height => endResult.checkpoint.block_hash = block_hash
          /\ endResult.checkpoint.block_hash # NoHash
    /\ FirstEndOfBlock =>
          /\ endResult.created <=> (height > 0 /\ height % bottomUpCheckPeriod = 0)
          /\ (CheckpointsAt(height) # {}) <=> endResult.created
          /\ \A i \in CheckpointsAt(height) :
                checkpoints[i] = [block_height |-> height, block_hash |-> block_hash]

C1_Witness ==
    /\ FirstEndOfBlock
    /\ height = 2
    /\ bottomUpCheckPeriod = 2
    /\ endResult.checkpoint = [block_height |-> 2, block_hash |-> BlockHash(2)]
    /\ CheckpointsAt(2) # {}

\* C2: the gateway never holds two checkpoints of one height, and after a
\* successful `end` at a checkpoint height it holds exactly one of that height,
\* however often `end` was called there.
C2_OneCheckpointPerHeight ==
    /\ \A i \in 1..Len(checkpoints) : \A j \in 1..Len(checkpoints) :
          checkpoints[i].block_height = checkpoints[j].block_height => i = j
    /\ ( /\ endResult.called /\ endResult.ok /\ endResult.height = height
         /\ height > 0 /\ height % bottomUpCheckPeriod = 0 )
          => Cardinality(CheckpointsAt(height)) = 1

C2_Witness ==
    /\ endResult.called /\ endResult.ok /\ endResult.height = height
    /\ endCalls = 2
    /\ ~endResult.created
    /\ Cardinality(CheckpointsAt(height)) = 1

\* C3: the validator never signs and submits a checkpoint again once its
\* signature for that checkpoint is recorded.
C3_SignedAtMostOnce ==
    [][ \A t \in tasks : \A u \in tasks' :
            (u.height = t.height /\ u.pos = t.pos + 1) =>
                <<t.incomplete_checkpoints[t.pos].block_height, t.validator_ctx>>
                    \notin signatures ]_vars

\* C4: a broadcast task is dispatched only by an `end` that produced a
\* checkpoint on a node with a validator context that is not syncing; every
\* other `end` dispatches nothing and sends no signature.
C4_DispatchOnlyWhenValidating ==
    [][ /\ (Dispatched # {}) =>
              /\ EndStep
              /\ endResult'.created /\ endResult'.has_ctx /\ ~endResult'.syncing
              /\ endResult'.dispatched
        /\ EndStep => signatures' = signatures
        /\ (EndStep /\ ~(endResult'.created /\ endResult'.has_ctx /\ ~endResult'.syncing))
              => (tasks' = tasks /\ ~endResult'.dispatched) ]_vars

C4_Witness ==
    /\ endResult.dispatched
    /\ endResult.created /\ endResult.has_ctx /\ ~endResult.syncing
    /\ \E t \in tasks : t.height = endResult.height /\ t.pos = 1

\* A task is gone in the step, and the step is not one that only drops tasks.
TaskReturned ==
    /\ \E t \in tasks : \A u \in tasks' : u.height # t.height
    /\ ~(tasks' = {} /\ logged' = logged /\ signatures' = signatures /\ failures' = failures)

\* A task goes from one checkpoint of its list to the next in the step.
TaskAdvanced == \E t \in tasks : \E u \in tasks' : u.height = t.height /\ u.pos = t.pos + 1

\* C5: `end` returns with the task it dispatched not yet started and the earlier
\* tasks untouched; no step of a task, and no logged failure of one, changes
\* what `end` returned, the block or the gateway's checkpoints, and a failing
\* task ends alone.
C5_EndDoesNotWait ==
    [][ /\ (EndStep /\ endResult'.dispatched) =>
              /\ endResult'.ok
              /\ phase' = "ended"
              /\ tasks \subseteq tasks'
              /\ \E t \in Dispatched :
                    t.height = height /\ t.pos = 1 /\ t.attempted = <<>>
        /\ (TaskAdvanced \/ TaskReturned \/ logged' # logged) =>
              /\ endResult' = endResult
              /\ UNCHANGED <<blockVars, checkpoints, window, power_table,
                             checkpoint_power, bottomUpCheckPeriod>>
        /\ (logged' # logged) =>
              /\ tasks' \subseteq tasks
              /\ Cardinality(tasks') = Cardinality(tasks) - 1 ]_vars

C5_Witness ==
    /\ endResult.called /\ endResult.ok /\ endResult.height = height
    /\ logged # {}
    /\ \E h \in logged : h < height
    /\ \E t \in tasks : t.height < height /\ t.pos = 1

\* C6: for every validator key, unsigned_checkpoints is the list, ascending by
\* height and without repetition, of exactly the checkpoints whose commit
\* window is open and that carry no signature of that key.
C6_UnsignedCheckpoints ==
    \A v \in Validators :
        LET u == Unsigned(v)
        IN  /\ Ascending(HeightsOf(u))
            /\ SeqToSet(u) = {cp \in SeqToSet(checkpoints) :
                                 /\ cp.block_height \in window
                                 /\ <<cp.block_height, v>> \notin signatures}

C6_Witness ==
    \E i \in 1..Len(checkpoints) :
        /\ checkpoints[i].block_height \in window
        /\ window = {checkpoints[i].block_height}
        /\ <<checkpoints[i].block_height, "A">> \in signatures
        /\ Unsigned("A") = <<>>
        /\ Unsigned("B") = <<checkpoints[i]>>

\* C7: no checkpoint whose signature by this validator is recorded is in the
\* list of incomplete checkpoints a later `end` computes, nor in
\* unsigned_checkpoints of any later state.
C7_SignedIsAbsent ==
    [][ /\ (EndStep /\ endResult'.dispatched) =>
              \A i \in 1..Len(endResult'.incomplete) :
                  <<endResult'.incomplete[i].block_height, validator_ctx>> \notin signatures
        /\ \A v \in Validators :
              LET later == unsigned_checkpoints(checkpoints', window', signatures', v)
              IN  \A i \in 1..Len(later) : <<later[i].block_height, v>> \notin signatures ]_vars

C7_Witness ==
    /\ endResult.dispatched
    /\ endResult.height = height
    /\ \E h \in window :
          /\ h < height
          /\ <<h, validator_ctx>> \in signatures
          /\ \A i \in 1..Len(endResult.incomplete) : endResult.incomplete[i].block_height # h

\* C8: when `end` creates a checkpoint on a validator node that is not syncing
\* and returns, the list of incomplete checkpoints it computed contains the
\* checkpoint it created: the assertion of `end` never fails.
C8_CurrentCheckpointIncomplete ==
    /\ endResult.assertion
    /\ (endResult.ok /\ endResult.created /\ endResult.has_ctx /\ ~endResult.syncing) =>
          /\ endResult.dispatched
          /\ \E i \in 1..Len(endResult.incomplete) :
                /\ endResult.incomplete[i].block_height = endResult.checkpoint.block_height
                /\ endResult.incomplete[i].block_hash = endResult.checkpoint.block_hash

C8_Witness ==
    /\ endResult.dispatched
    /\ endResult.height = height
    /\ \E t \in tasks : t.height < height /\ t.pos <= Len(t.incomplete_checkpoints)
    /\ \E t \in tasks : t.height = height

\* C9: a task signs and submits the checkpoints of its list in height order, one
\* after the other whatever the outcome of the earlier ones, and it returns only
\* with the submission for the last checkpoint of the list.
C9_FailureDoesNotAbort ==
    [][ /\ \A u \in tasks' :
              /\ u.pos <= Len(u.incomplete_checkpoints)
              /\ u.attempted = HeightsOf(SubSeq(u.incomplete_checkpoints, 1, u.pos - 1))
              /\ Ascending(HeightsOf(u.incomplete_checkpoints))
        /\ TaskReturned =>
              \A t \in tasks : (\A u \in tasks' : u.height # t.height)
                                  => t.pos = Len(t.incomplete_checkpoints) ]_vars

\* A task returned with an error for an earlier checkpoint of its list, and the
\* signature of its last checkpoint is recorded.
C9_Witness ==
    \E h \in logged : \E g \in failures :
        /\ g < h
        /\ g \in window
        /\ <<g, validator_ctx>> \notin signatures
        /\ <<h, validator_ctx>> \in signatures
        /\ height = h + 1
        /\ tasks = {}

\* The checkpoints in fs that are still unsigned by this validator and whose
\* commit window is open.
StillUnsigned(fs) ==
    {h \in fs : h \in window /\ <<h, validator_ctx>> \notin signatures}

Retried(h) ==
    \E t \in Dispatched :
        \E i \in 1..Len(t.incomplete_checkpoints) : t.incomplete_checkpoints[i].block_height = h

\* C10 (as claimed): the `end` of a block, on a validator node that is not
\* syncing, dispatches a broadcast that includes every checkpoint whose
\* submission failed while an earlier block was open and that is still unsigned.
C10_RetriedByNextBlock ==
    [][ (EndStep /\ endCalls = 0 /\ endResult'.ok /\ endResult'.has_ctx /\ ~endResult'.syncing)
            => \A h \in StillUnsigned(failures_before) : Retried(h) ]_vars

\* C10 (amended): an `end` that creates a checkpoint on a validator node that is
\* not syncing, and returns, dispatches a broadcast that includes every
\* checkpoint whose submission failed and that is still unsigned.
C10_RetriedByNextCheckpoint ==
    [][ (EndStep /\ endResult'.ok /\ endResult'.created /\ endResult'.has_ctx
           /\ ~endResult'.syncing)
            => \A h \in StillUnsigned(failures) : Retried(h) ]_vars

C10_Witness ==
    /\ endResult.dispatched
    /\ endResult.height = height
    /\ \E t \in tasks :
          /\ t.height = height
          /\ t.pos = 1
          /\ \E i \in 1..Len(t.incomplete_checkpoints) :
                /\ t.incomplete_checkpoints[i].block_height \in failures_before
                /\ t.incomplete_checkpoints[i].block_height < height
                /\ <<t.incomplete_checkpoints[i].block_height, validator_ctx>> \notin signatures

\* ------------------------------------------------- convergence of signing
\* The blocks the node goes on processing past LiveMaxHeight are followed
\* without their heights: LaterHeight stands for every later height, and the
\* checkpoints created there are not kept in the model. As at the heights the
\* model follows, one task per height is in flight.
LiveMaxHeight == 2
LaterHeight == LiveMaxHeight + 1

\* A validator node, as in Init.
LiveInit == Init /\ validator_ctx = NodeKey /\ block_hash # NoHash

\* The consensus layer hands over the next block, with its hash.
LiveNewBlock == height < LiveMaxHeight /\ NewBlock /\ block_hash' # NoHash

LaterBlock ==
    /\ phase = "ended"
    /\ height >= LiveMaxHeight
    /\ height' = LaterHeight
    /\ block_hash' = BlockHash(LaterHeight)
    /\ phase' = "open"
    /\ endCalls' = 0
    /\ endResult' = NoResult
    /\ UNCHANGED <<gatewayVars, validator_ctx, taskVars, failures_before, execVars, provVars>>

\* exec.rs 501-552 on a node that is not syncing, once per block.
LiveEnd ==
    /\ height <= LiveMaxHeight
    /\ phase = "open"
    /\ End
    /\ ~endResult'.syncing

\* exec.rs 501-552 at a later height, on a node that is not syncing: when a
\* checkpoint is due there, the incomplete checkpoints are read from the gateway
\* and handed to a new task.
LaterEnd ==
    /\ height = LaterHeight
    /\ phase = "open"
    /\ phase' = "ended"
    /\ endCalls' = endCalls + 1
    /\ endResult' = NoResult
    /\ \E due \in BOOLEAN :
        LET checkpoint == [block_height |-> height, block_hash |-> block_hash]
            incomplete == IncompleteCheckpoints(checkpoints, checkpoints, window,
                                                window, signatures, validator_ctx)
        IN  IF /\ due
               /\ ShouldBroadcast(TRUE, validator_ctx, FALSE)
               /\ incomplete # <<>>
               /\ \A t \in tasks : t.height # height
            THEN tasks' = tasks \cup {NewTask(checkpoint, validator_ctx, incomplete)}
            ELSE tasks' = tasks
    /\ UNCHANGED <<height, block_hash, gatewayVars, validator_ctx, logged, failures,
                   failures_before, execVars, provVars>>

\* exec.rs 529-542, as BroadcastStep: a task submits in the block that is open.
\* What is logged is not followed here.
LiveBroadcastStep(t) ==
    /\ phase = "open"
    /\ t \in tasks
    /\ t.pos <= Len(t.incomplete_checkpoints)
    /\ \E submitted \in BOOLEAN :
        LET h == t.incomplete_checkpoints[t.pos].block_height
            u == AfterSubmission(t, submitted)
        IN  /\ signatures' = IF submitted
                             THEN signatures \cup {<<h, t.validator_ctx>>}
                             ELSE signatures
            /\ failures' = IF submitted THEN failures ELSE failures \cup {h}
            /\ tasks' = IF u.pos > Len(u.incomplete_checkpoints)
                        THEN tasks \ {t}
                        ELSE (tasks \ {t}) \cup {u}
    /\ UNCHANGED <<blockVars, bottomUpCheckPeriod, checkpoints, window, power_table,
                   checkpoint_power, validator_ctx, logged, failures_before, endResult,
                   execVars, provVars>>

\* The submission of the step succeeds.
Signs(t) ==
    /\ LiveBroadcastStep(t)
    /\ <<t.incomplete_checkpoints[t.pos].block_height, t.validator_ctx>> \in signatures'

\* The node restarts at one of the heights the model follows.
LiveRestart == height <= LiveMaxHeight /\ Restart

LiveNext ==
    \/ LiveNewBlock
    \/ LaterBlock
    \/ LiveEnd
    \/ LaterEnd
    \/ \E t \in tasks : LiveBroadcastStep(t)
    \/ LiveRestart
    \/ \E h \in window : CloseWindow(h)

\* The node keeps processing blocks, `end` eventually returns and a block whose
\* application was aborted is applied again; a spawned task is eventually
\* scheduled; a submission that is attempted again and again
\* eventually succeeds.
LiveFairness ==
    /\ WF_vars(LiveNewBlock \/ LaterBlock)
    /\ SF_vars(LiveEnd /\ phase' = "ended")
    /\ WF_vars(phase = "aborted" /\ LiveRestart)
    /\ WF_vars(LaterEnd)
    /\ SF_vars(LaterEnd /\ tasks' # tasks)
    /\ SF_vars(\E t \in tasks : LiveBroadcastStep(t))
    /\ SF_vars(\E t \in tasks : Signs(t))

LiveSpec == LiveInit /\ [][LiveNext]_vars /\ LiveFairness

InWindowUnsigned(h) == h \in window /\ <<h, validator_ctx>> \notin signatures

\* C11: on a validator node that is not syncing and keeps processing blocks,
\* with submissions that eventually succeed, every checkpoint whose commit
\* window is open and that this validator has not signed is eventually signed
\* by it or its window closes, also after a restart has dropped the tasks in
\* flight.
C11_EventuallySigned ==
    \A h \in 1..LiveMaxHeight :
        InWindowUnsigned(h) ~> (<<h, validator_ctx>> \in signatures \/ h \notin window)

\* A restart has dropped the task of an unsigned checkpoint before it was
\* attempted, and a task dispatched by a later `end` is about to sign it.
C11_Witness ==
    \E t \in tasks :
        /\ t.pos <= Len(t.incomplete_checkpoints)
        /\ LET h == t.incomplete_checkpoints[t.pos].block_height
           IN  /\ h < t.height
               /\ InWindowUnsigned(h)
               /\ h \notin failures
               /\ \A u \in tasks : u.height # h

\* ------------------------------------------- the messages of a block
\* One thing the executor does not answer with "ok" in a call of `begin`: what
\* it would answer past the first such message `begin` does not get to see.
Faults ==
    {[method |-> "", outcome |-> "ok"]}
        \cup {[method |-> m, outcome |-> o] : m \in StepNames, o \in {"failure_info", "error"}}
        \cup {[method |-> m, outcome |-> "bad_return"] :
                m \in {n \in StepNames : Unwraps(n)}}

OutcomesOf(fault) == [m \in StepNames |-> IF m = fault.method THEN fault.outcome ELSE "ok"]

\* The migrations scheduled: none, one for this chain, one for another chain.
Schedules == {{}, {<<ChainId, 1>>}, {<<OtherChainId, 1>>}}

endVars == <<phase, endCalls, gatewayVars, validator_ctx, taskVars, failures_before,
             endResult>>

\* The interpreter as configured and the state of the first block.
ExecInit ==
    /\ ProviderNew
    /\ height = 0
    /\ block_hash \in {BlockHash(0), NoHash}
    /\ phase = "open"
    /\ endCalls = 0
    /\ bottomUpCheckPeriod = 1
    /\ checkpoints = <<>>
    /\ window = {}
    /\ signatures = {}
    /\ power_table = [v \in Validators |-> 1]
    /\ checkpoint_power = [v \in Validators |-> 1]
    /\ validator_ctx = NoCtx
    /\ tasks = {}
    /\ logged = {}
    /\ failures = {}
    /\ failures_before = {}
    /\ endResult = NoResult
    /\ app_version = 0
    /\ chain_id = ChainId
    /\ push_chain_meta \in BOOLEAN
    /\ upgrade_scheduler \in Schedules
    /\ sequence = [a \in Accounts |-> 0]
    /\ applied = [a \in Accounts |-> <<>>]
    /\ stage = "begin"
    /\ beginResult = NoBeginResult
    /\ deliverResult = NoDeliverResult

\* exec.rs 51-461
Begin ==
    /\ stage = "begin"
    /\ \E up \in UpgradeOutcomes, fault \in Faults :
        LET r == begin(height, block_hash, chain_id, upgrade_scheduler, push_chain_meta,
                       app_version, up, OutcomesOf(fault))
        IN  /\ beginResult' = r
            /\ stage' = IF r.ok THEN "deliver" ELSE "fatal"
            /\ app_version' = r.app_version
    /\ deliverResult' = NoDeliverResult
    /\ UNCHANGED <<height, block_hash, endVars, provVars, chain_id, push_chain_meta,
                   upgrade_scheduler, sequence, applied>>

\* exec.rs 463-499, on a message the consensus layer hands over after `begin`.
Deliver ==
    /\ stage = "deliver"
    /\ \E from \in Accounts \cup {SYSTEM_ACTOR_ADDR}, seq \in 0..MaxSequence,
          outcome \in {"ok", "failure_info", "error"}, gap_taken \in BOOLEAN :
        LET msg == [from |-> from, to |-> "actor", sequence |-> seq,
                    method_num |-> "Send", params |-> <<>>]
            r == deliver(sequence, msg, outcome, gap_taken)
        IN  /\ deliverResult' = r
            /\ stage' = IF r.ok THEN "deliver" ELSE "fatal"
            /\ sequence' = r.sequence_after
            /\ applied' = IF r.applied
                          THEN [applied EXCEPT ![from] = Append(@, seq)]
                          ELSE applied
    /\ beginResult' = NoBeginResult
    /\ UNCHANGED <<height, block_hash, endVars, provVars, app_version, chain_id, push_chain_meta,
                   upgrade_scheduler>>

\* `end` has returned and the consensus layer hands over the state of the
\* next block.
NextBlock ==
    /\ stage = "deliver"
    /\ height < ExecMaxHeight
    /\ height' = height + 1
    /\ block_hash' \in {BlockHash(height + 1), NoHash}
    /\ stage' = "begin"
    /\ beginResult' = NoBeginResult
    /\ deliverResult' = NoDeliverResult
    /\ UNCHANGED <<endVars, provVars, app_version, chain_id, push_chain_meta, upgrade_scheduler,
                   sequence, applied>>

\* `begin` block after block.
BeginNext == Begin \/ NextBlock

BeginSpec == ExecInit /\ [][BeginNext]_vars

\* The deliveries of a block whose `begin` has returned.
DeliverInit ==
    /\ ExecInit
    /\ block_hash # NoHash
    /\ ~push_chain_meta
    /\ upgrade_scheduler = {}

\* exec.rs 51-461, when nothing fails.
BeginOk == Begin /\ beginResult'.ok /\ beginResult'.up = "ok"

DeliverNext == BeginOk \/ Deliver

DeliverSpec == DeliverInit /\ [][DeliverNext]_vars

\* --------------------------------------------------- properties of `begin`
Executed(step) == \E i \in 1..Len(beginResult.executed) : beginResult.executed[i] = step

\* Where `begin` executed the step, 0 if it did not.
PositionOf(step) ==
    IF Executed(step)
    THEN CHOOSE i \in 1..Len(beginResult.executed) : beginResult.executed[i] = step
    ELSE 0

\* `begin` returned a fatal error: no output and no state.
BeginFatal ==
    /\ ~beginResult.ok
    /\ beginResult.output = NoOutput
    /\ ~beginResult.state_returned
    /\ stage = "fatal"

\* C12: when the cron message `begin` executes reports failure info, `begin`
\* returns a fatal error: no BeginOutput and no state.
C12_CronFailureIsFatal ==
    (beginResult.called /\ Executed("EpochTick")
       /\ beginResult.out["EpochTick"] = "failure_info")
        => /\ BeginFatal
           /\ beginResult.err = "failed to apply block cron message"

C12_Witness ==
    /\ beginResult.called
    /\ Executed("EpochTick")
    /\ beginResult.out["EpochTick"] = "failure_info"
    /\ ~beginResult.ok
    /\ height = 1

\* C13: when a migration is scheduled for the chain id and height of the block
\* and it fails, `begin` returns a fatal error with nothing executed but the
\* migration; when none is scheduled for that chain id and height, none is
\* executed.
C13_MigrationFailureIsFatal ==
    beginResult.called =>
        /\ Executed("upgrade") <=> (<<chain_id, height>> \in upgrade_scheduler)
        /\ (Executed("upgrade") /\ beginResult.up = "error") =>
              /\ BeginFatal
              /\ beginResult.err = "upgrade failed"
              /\ beginResult.executed = <<"upgrade">>
              /\ beginResult.messages = <<>>

C13_Witness ==
    /\ beginResult.called
    /\ <<chain_id, height>> \in upgrade_scheduler
    /\ beginResult.up = "error"
    /\ beginResult.executed = <<"upgrade">>
    /\ stage = "fatal"

\* The migration, if one ran, did not fail.
MigrationSucceeded == ~(Executed("upgrade") /\ beginResult.up = "error")

\* C14: the implicit messages `begin` executes are the cron tick and the
\* chain-metadata push and no other, and `begin` succeeds whenever the
\* migration, the cron tick and the metadata push succeed.
C14_OnlyCronAndMetadata ==
    beginResult.called =>
        /\ \A i \in 1..Len(beginResult.messages) :
              beginResult.messages[i].method_num \in {"EpochTick", "PushBlockHash"}
        /\ ( /\ MigrationSucceeded
             /\ beginResult.out["EpochTick"] = "ok"
             /\ beginResult.out["PushBlockHash"] = "ok" ) => beginResult.ok

\* C15: once the cron message has succeeded, `begin` executes the push of the
\* height and hash of the block to the chain-metadata actor exactly when that is
\* switched on and the state has a block hash; without a hash it goes on with no
\* error, and a push that reports failure info is a fatal error.
C15_MetadataPush ==
    (beginResult.called /\ Executed("EpochTick") /\ beginResult.out["EpochTick"] = "ok") =>
        /\ Executed("PushBlockHash") <=> (push_chain_meta /\ block_hash # NoHash)
        /\ Executed("PushBlockHash") =>
              \E i \in 1..Len(beginResult.messages) :
                  /\ beginResult.messages[i].method_num = "PushBlockHash"
                  /\ beginResult.messages[i].from = SYSTEM_ACTOR_ADDR
                  /\ beginResult.messages[i].to = CHAINMETADATA_ACTOR_ADDR
                  /\ beginResult.messages[i].params = <<height, block_hash>>
        /\ (Executed("PushBlockHash") /\ beginResult.out["PushBlockHash"] = "failure_info") =>
              /\ BeginFatal
              /\ beginResult.err = "failed to apply chainmetadata message"
        /\ (push_chain_meta /\ block_hash = NoHash) =>
              /\ beginResult.err # "failed to apply chainmetadata message"
              /\ (\A m \in StepNames : beginResult.out[m] = "ok") => beginResult.ok

C15_Witness ==
    /\ beginResult.called
    /\ push_chain_meta
    /\ height = 1
    /\ block_hash = BlockHash(1)
    /\ Executed("PushBlockHash")
    /\ beginResult.out["PushBlockHash"] = "failure_info"
    /\ stage = "fatal"

\* C16: `begin` runs the migration first, the cron message next and the
\* chain-metadata push right after it, each only when the one before it has
\* succeeded.
C16_BeginOrder ==
    beginResult.called =>
        /\ Executed("upgrade") => PositionOf("upgrade") = 1
        /\ Executed("EpochTick") =>
              /\ PositionOf("EpochTick") = IF Executed("upgrade") THEN 2 ELSE 1
              /\ MigrationSucceeded
        /\ Executed("PushBlockHash") =>
              /\ Executed("EpochTick")
              /\ PositionOf("PushBlockHash") = PositionOf("EpochTick") + 1
              /\ beginResult.out["EpochTick"] = "ok"
              /\ MigrationSucceeded

C16_Witness ==
    /\ beginResult.called
    /\ Len(beginResult.executed) >= 3
    /\ SubSeq(beginResult.executed, 1, 3) = <<"upgrade", "EpochTick", "PushBlockHash">>
    /\ beginResult.ok

\* ------------------------------------------------------ properties of deliver
\* The message is at or below the last sequence number its sender used.
AtOrBelowLastUsed(r) == r.sequence < r.sequence_before[r.from]

\* C17: `deliver` takes the implicit path, with no check of the sequence
\* number, exactly when the sender is the system address, so that a system
\* message with a zero or an already used sequence number succeeds; a message
\* of any other sender takes the explicit path with its check.
C17_ImplicitIffSystemSender ==
    deliverResult.called =>
        /\ deliverResult.path = "implicit" <=> deliverResult.from = SYSTEM_ACTOR_ADDR
        /\ deliverResult.from # SYSTEM_ACTOR_ADDR => deliverResult.path = "explicit"
        /\ (deliverResult.from = SYSTEM_ACTOR_ADDR /\ deliverResult.outcome = "ok") =>
              /\ deliverResult.ok
              /\ deliverResult.exit_code = ExitOk
              /\ deliverResult.sequence_after = deliverResult.sequence_before
        /\ (deliverResult.from # SYSTEM_ACTOR_ADDR /\ AtOrBelowLastUsed(deliverResult)) =>
              deliverResult.exit_code = SYS_SENDER_STATE_INVALID

\* A system message with the sequence number the cron message of the block
\* has used already is delivered with success.
C17_Witness ==
    /\ deliverResult.called
    /\ deliverResult.from = SYSTEM_ACTOR_ADDR
    /\ deliverResult.sequence = height
    /\ deliverResult.path = "implicit"
    /\ deliverResult.ok
    /\ deliverResult.exit_code = ExitOk

\* C18: the sequence numbers of the explicit messages applied with success
\* strictly increase for each sender; an explicit message at or below the last
\* sequence number of its sender is rejected and leaves the sequence alone.
C18_SequencesIncrease ==
    /\ \A a \in Accounts :
          /\ Ascending(applied[a])
          /\ \A i \in 1..Len(applied[a]) : applied[a][i] < sequence[a]
    /\ ( /\ deliverResult.called
         /\ deliverResult.path = "explicit"
         /\ AtOrBelowLastUsed(deliverResult) ) =>
              /\ ~deliverResult.applied
              /\ deliverResult.exit_code = SYS_SENDER_STATE_INVALID
              /\ deliverResult.sequence_after = deliverResult.sequence_before

\* The sequence number of the last applied message of a sender comes again.
C18_Witness ==
    /\ deliverResult.called
    /\ deliverResult.path = "explicit"
    /\ applied[deliverResult.from] # <<>>
    /\ deliverResult.sequence = applied[deliverResult.from][Len(applied[deliverResult.from])]
    /\ deliverResult.exit_code = SYS_SENDER_STATE_INVALID
    /\ sequence = deliverResult.sequence_before

\* C19: an explicit message that reports failure info does not make `deliver`
\* fail: the state and the output with the exit code come back and the block
\* goes on.
C19_UserFailureNotFatal ==
    ( /\ deliverResult.called
      /\ deliverResult.path = "explicit"
      /\ deliverResult.failure_info ) =>
          /\ deliverResult.ok
          /\ deliverResult.state_returned
          /\ deliverResult.exit_code # ExitOk
          /\ stage = "deliver"

C19_Witness ==
    /\ deliverResult.called
    /\ deliverResult.path = "explicit"
    /\ deliverResult.outcome = "failure_info"
    /\ deliverResult.exit_code = ExitFailed
    /\ deliverResult.ok
    /\ stage = "deliver"

\* C20: an implicit message that reports failure info, in `begin` or in
\* `deliver` of a message of the system address, is fatal: the operation
\* returns an error and the block is aborted.
C20_ImplicitFailureIsFatal ==
    /\ ( /\ beginResult.called
         /\ \E i \in 1..Len(beginResult.messages) :
               beginResult.out[beginResult.messages[i].method_num] = "failure_info" ) =>
            BeginFatal
    /\ ( /\ deliverResult.called
         /\ deliverResult.path = "implicit"
         /\ deliverResult.failure_info ) =>
            /\ ~deliverResult.ok
            /\ ~deliverResult.state_returned
            /\ stage = "fatal"

\* ------------------------------------------------- properties of `end`, II
\* C21: when a checkpoint is due and the state has no block hash, or the power
\* table cannot be read, `end` fails: no checkpoint is created, no power
\* updates are returned and no broadcast is dispatched.
C21_DueWithoutHashFails ==
    [][EndStep =>
        /\ (Due(height, bottomUpCheckPeriod) /\ block_hash = NoHash) =>
              endResult'.err = "failed to create checkpoint"
        /\ endResult'.err = "failed to create checkpoint" =>
              /\ Due(height, bottomUpCheckPeriod)
              /\ ~endResult'.ok
              /\ ~endResult'.created
              /\ endResult'.updates = <<>>
              /\ ~endResult'.dispatched
              /\ checkpoints' = checkpoints
              /\ window' = window
              /\ tasks' = tasks
              /\ phase' = "aborted"]_vars

C21_Witness ==
    /\ endResult.called
    /\ endResult.height = height
    /\ endResult.err = "failed to create checkpoint"
    /\ block_hash = NoHash
    /\ validator_ctx = NodeKey
    /\ CheckpointsAt(height) = {}
    /\ phase = "aborted"

\* ------------------------------------------------ `end` and validator power
\* The consensus layer hands over the next block, with its hash.
PowerNewBlock == NewBlock /\ block_hash' # NoHash

\* A message executed in the open block changes the power of a validator in
\* the gateway.
ChangePower(v, p) ==
    /\ phase = "open"
    /\ p # power_table[v]
    /\ power_table' = [power_table EXCEPT ![v] = p]
    /\ UNCHANGED <<blockVars, bottomUpCheckPeriod, checkpoints, window, signatures,
                   checkpoint_power, validator_ctx, taskVars, failures_before,
                   endResult, execVars, provVars>>

PowerInit == Init /\ block_hash # NoHash

PowerNext ==
    \/ PowerNewBlock
    \/ End
    \/ \E v \in Validators, p \in Powers : ChangePower(v, p)

PowerSpec == PowerInit /\ [][PowerNext]_vars

\* The validators whose power differs between two tables.
Changed(prev, cur) == {v \in Validators : prev[v] # cur[v]}

\* C22: the power updates `end` returns are empty when no checkpoint is due at
\* the height; when a checkpoint is produced they are exactly the changes of
\* validator power between the power table of the previous checkpoint and the
\* current one, each validator once, and so empty when the table is the same.
C22_PowerUpdates ==
    [][EndStep =>
        /\ ~Due(height, bottomUpCheckPeriod) => endResult'.updates = <<>>
        /\ (endResult'.ok /\ endResult'.created) =>
              /\ SeqToSet(endResult'.updates) =
                    {[validator |-> v, power |-> power_table[v]] :
                        v \in Changed(checkpoint_power, power_table)}
              /\ Len(endResult'.updates) =
                    Cardinality(Changed(checkpoint_power, power_table))
              /\ power_table = checkpoint_power => endResult'.updates = <<>>]_vars

\* The second checkpoint carries the change of power since the first.
C22_Witness ==
    /\ endResult.called
    /\ endResult.ok
    /\ endResult.created
    /\ endResult.height = height
    /\ Len(checkpoints) >= 2
    /\ endResult.updates = <<[validator |-> "B", power |-> 2]>>

\* What the consensus layer sees of `end`: success or error, the power updates
\* and the gateway state that comes back.
Outcome(e) ==
    [ok |-> e.ok, updates |-> e.updates, checkpoints |-> e.checkpoints,
     window |-> e.window, checkpoint_power |-> e.checkpoint_power]

\* `end` on the state of the open block, on a node with the context ctx, with
\* what the gateway answers to its reads.
EndOn(ctx, readable, is_syncing, fetched) ==
    end(bottomUpCheckPeriod, checkpoints, window, signatures, checkpoint_power,
        power_table, height, block_hash, ctx, readable, is_syncing, fetched)

\* C25: on the same state at the same height the outcome of `end` is the same
\* on every node, with or without a validator context, syncing or not.
C25_SameOutcomeOnEveryNode ==
    phase = "open" =>
        \A readable \in BOOLEAN, fetched \in BOOLEAN :
            \A c1 \in {NodeKey, NoCtx}, c2 \in {NodeKey, NoCtx} :
                \A s1 \in BOOLEAN, s2 \in BOOLEAN :
                    Outcome(EndOn(c1, readable, s1, fetched)) =
                        Outcome(EndOn(c2, readable, s2, fetched))

\* C26: on a validator node that is not syncing, when the checkpoint has been
\* created and the incomplete checkpoints cannot be fetched, `end` returns an
\* error, no power updates, and spawns no task.
C26_FetchFailureIsFatal ==
    /\ [](phase = "open" =>
            \A readable \in BOOLEAN :
                LET e == EndOn(NodeKey, readable, FALSE, FALSE)
                IN  e.r.tag = "Some" =>
                        /\ ~e.ok
                        /\ e.err = "failed to fetch incomplete checkpoints"
                        /\ e.updates = <<>>
                        /\ ~e.dispatched
                        /\ e.spawned = {})
    /\ [][(EndStep /\ endResult'.err = "failed to fetch incomplete checkpoints") =>
            /\ endResult'.has_ctx
            /\ ~endResult'.syncing
            /\ endResult'.created
            /\ ~endResult'.ok
            /\ endResult'.updates = <<>>
            /\ ~endResult'.dispatched
            /\ tasks' = tasks
            /\ phase' = "aborted"]_vars

\* The fetch has failed after a checkpoint that carries a change of power.
C26_Witness ==
    /\ endResult.called
    /\ endResult.height = height
    /\ endResult.err = "failed to fetch incomplete checkpoints"
    /\ endResult.created
    /\ validator_ctx = NodeKey
    /\ power_table # checkpoint_power
    /\ phase = "aborted"

\* ------------------------------------------------ the task and the state
\* C24: the list of a task is the one `end` has computed on its state before
\* the dispatch, and the task keeps to that list and to its copy of the
\* validator context whatever happens to the state afterwards: it signs the
\* checkpoints of the list and leaves the execution state alone.
C24_TaskKeepsToItsList ==
    [][/\ \A u \in Dispatched :
              /\ EndStep
              /\ u.incomplete_checkpoints = endResult'.incomplete
              /\ u.incomplete_checkpoints = Unsigned(validator_ctx)'
              /\ u.validator_ctx = validator_ctx
       /\ \A t \in tasks : \A u \in tasks' :
              u.height = t.height =>
                  /\ u.incomplete_checkpoints = t.incomplete_checkpoints
                  /\ u.validator_ctx = t.validator_ctx
       /\ \A sig \in signatures' \ signatures :
              \E t \in tasks :
                  /\ t.pos <= Len(t.incomplete_checkpoints)
                  /\ sig = <<t.incomplete_checkpoints[t.pos].block_height, t.validator_ctx>>
       /\ (TaskAdvanced \/ TaskReturned) =>
              UNCHANGED <<blockVars, bottomUpCheckPeriod, checkpoints, window,
                          power_table, checkpoint_power, validator_ctx>>
      ]_vars

\* A task in flight has signed a checkpoint of its list and has one to go whose
\* commit window the gateway has closed since the dispatch.
C24_Witness ==
    \E t \in tasks :
        /\ t.pos <= Len(t.incomplete_checkpoints)
        /\ t.attempted # <<>>
        /\ t.incomplete_checkpoints[t.pos].block_height \notin window
        /\ t.incomplete_checkpoints # Unsigned(t.validator_ctx)

\* ---------------------------------------------- properties of `begin`, II
\* C23: the output of a successful `begin` describes the cron call: the
\* receipt and the emitters are those of the execution of the cron message, not
\* of the push or of a later message, and the sender, the receiver, the method
\* and the gas limit are those of the cron message.
C23_OutputDescribesCron ==
    (beginResult.called /\ beginResult.ok) =>
        /\ beginResult.output.apply_ret.of = <<CRON_ACTOR_ADDR, "EpochTick", height>>
        /\ beginResult.output.apply_ret.exit_code = ExitOk
        /\ ~beginResult.output.apply_ret.failure_info
        /\ beginResult.output.emitters.of = <<CRON_ACTOR_ADDR, "EpochTick", height>>
        /\ beginResult.output.from = SYSTEM_ACTOR_ADDR
        /\ beginResult.output.to = CRON_ACTOR_ADDR
        /\ beginResult.output.method_num = "EpochTick"
        /\ beginResult.output.gas_limit = BLOCK_GAS_LIMIT * 10000

C23_Witness ==
    /\ beginResult.called
    /\ beginResult.ok
    /\ height = 1
    /\ Executed("PushBlockHash")
    /\ Executed("PredictKNNRegression")
    /\ beginResult.output.apply_ret.of = <<CRON_ACTOR_ADDR, "EpochTick", 1>>

\* A migration is scheduled for the chain and the height of the block.
MigrationScheduled == <<chain_id, height>> \in upgrade_scheduler

\* C27: `begin` changes the application version only when a migration is
\* scheduled for the chain and the height and yields a new version, and the
\* version is then the one the migration yields; with no migration scheduled or
\* one that yields no version the application version stays as it was.
C27_AppVersion ==
    beginResult.called =>
        /\ app_version # beginResult.version_before =>
              /\ MigrationScheduled
              /\ beginResult.up = "new_version"
              /\ beginResult.ok
        /\ (beginResult.ok /\ MigrationScheduled /\ beginResult.up = "new_version") =>
              app_version = beginResult.version_before + 1
        /\ (~MigrationScheduled \/ beginResult.up = "ok") =>
              app_version = beginResult.version_before

C27_Witness ==
    /\ beginResult.called
    /\ beginResult.ok
    /\ MigrationScheduled
    /\ beginResult.up = "new_version"
    /\ beginResult.version_before = 0
    /\ app_version = 1

\* C28: every implicit message `begin` builds is sent by the system address
\* with the height of the block as sequence number and with zero value, fee cap
\* and premium; the cron message goes to the cron actor and the push to the
\* chain-metadata actor, with the same gas limit.
C28_ImplicitMessageFields ==
    beginResult.called =>
        \A i \in 1..Len(beginResult.messages) :
            LET m == beginResult.messages[i]
            IN  /\ m.from = SYSTEM_ACTOR_ADDR
                /\ m.sequence = height
                /\ m.value = 0
                /\ m.gas_fee_cap = 0
                /\ m.gas_premium = 0
                /\ m.method_num = "EpochTick" => m.to = CRON_ACTOR_ADDR
                /\ m.method_num = "PushBlockHash" =>
                      /\ m.to = CHAINMETADATA_ACTOR_ADDR
                      /\ \E j \in 1..Len(beginResult.messages) :
                            /\ beginResult.messages[j].method_num = "EpochTick"
                            /\ beginResult.messages[j].gas_limit = m.gas_limit

C28_Witness ==
    /\ beginResult.called
    /\ height = 1
    /\ Len(beginResult.messages) >= 2
    /\ beginResult.messages[1].method_num = "EpochTick"
    /\ beginResult.messages[2].method_num = "PushBlockHash"
    /\ beginResult.messages[2].sequence = 1

\* ------------------------------------------------- the sender of the provider
\* lib.rs 177-217, as called by the operations of the provider (lib.rs 247).
CheckSender ==
    /\ \E kind \in SubnetKinds, from \in Addresses \cup {NoAddr}, converts \in BOOLEAN :
        LET r == check_sender(sender, kind, from, fvm_default, evm_default, converts)
        IN  /\ sender' = r.sender
            /\ senderResult' = [op |-> "check_sender", ok |-> r.ok, addr |-> r.addr,
                                err |-> r.err, kind |-> kind, from |-> from,
                                converts |-> converts]
    /\ UNCHANGED <<fvm_default, evm_default, blockVars, gatewayVars, validator_ctx,
                   taskVars, failures_before, endResult, execVars>>

\* lib.rs 147-150
WithSender ==
    /\ \E from \in Addresses :
        /\ sender' = from
        /\ senderResult' = [NoSenderResult EXCEPT !.op = "with_sender", !.ok = TRUE,
                                                  !.from = from]
    /\ UNCHANGED <<fvm_default, evm_default, blockVars, gatewayVars, validator_ctx,
                   taskVars, failures_before, endResult, execVars>>

\* The user makes another account, or none, the default of a wallet.
SetDefault ==
    /\ fvm_default' \in Addresses \cup {NoAddr}
    /\ evm_default' \in EthKeys \cup {NoKey}
    /\ <<fvm_default', evm_default'>> # <<fvm_default, evm_default>>
    /\ senderResult' = [NoSenderResult EXCEPT !.op = "set_default"]
    /\ UNCHANGED <<sender, blockVars, gatewayVars, validator_ctx, taskVars,
                   failures_before, endResult, execVars>>

SenderInit ==
    /\ ExecInit
    /\ block_hash = NoHash
    /\ ~push_chain_meta
    /\ upgrade_scheduler = {}

SenderNext == CheckSender \/ WithSender \/ SetDefault

SenderSpec == SenderInit /\ [][SenderNext]_vars

\* The default account of the wallet of a kind of subnet, as an address.
DefaultAccount(kind, converts) ==
    IF kind = "Fvm" THEN fvm_default
    ELSE IF evm_default = NoKey \/ ~converts THEN NoAddr
    ELSE AddressOf(evm_default)

\* C29: check_sender returns the `from` of the caller when there is one and
\* leaves the stored sender alone; else the stored sender; else the default
\* account of the wallet, which it stores; when no default can be resolved it
\* fails and the stored sender stays unset. A stored sender is replaced by
\* with_sender only.
C29_SenderPrecedence ==
    [][/\ senderResult'.op = "check_sender" =>
            LET r == senderResult'
                def == DefaultAccount(r.kind, r.converts)
            IN  /\ r.from # NoAddr =>
                      r.ok /\ r.addr = r.from /\ sender' = sender
                /\ (r.from = NoAddr /\ sender # NoAddr) =>
                      r.ok /\ r.addr = sender /\ sender' = sender
                /\ (r.from = NoAddr /\ sender = NoAddr /\ def # NoAddr) =>
                      r.ok /\ r.addr = def /\ sender' = def
                /\ (r.from = NoAddr /\ sender = NoAddr /\ def = NoAddr) =>
                      ~r.ok /\ sender' = NoAddr
       /\ (sender # NoAddr /\ sender' # sender) =>
            /\ senderResult'.op = "with_sender"
            /\ sender' = senderResult'.from
      ]_vars

\* check_sender without `from` has returned the stored sender although the
\* wallet has another default account by now.
C29_Witness ==
    /\ senderResult.op = "check_sender"
    /\ senderResult.from = NoAddr
    /\ senderResult.kind = "Fvm"
    /\ senderResult.ok
    /\ senderResult.addr = sender
    /\ sender = "f410e1"
    /\ fvm_default = "f1b"
====
